---- MODULE Spec2Model ----
(***************************************************************************)
(* The result stores and batch runners of FindOpenSimulationModels:        *)
(*   AnalyzeFmuFiles.py              ResultStore, AnalyzeFmuFiles          *)
(*   AnalyzeRepositories.py          ResultStore, AnalyzeRepositories      *)
(*   ScrapeGitHubFilesByExtension.py ResultStore, ScrapeGitHubFilesByExtension *)
(*   DownloadGitHubFiles.py          DownloadGitHubFiles                   *)
(* One process runs one pipeline at a time.  The process can be killed at  *)
(* any step; the store file and the downloaded files are the only state    *)
(* that survives.                                                          *)
(***************************************************************************)
EXTENDS Integers, Sequences, FiniteSets, TLC

VARIABLES
    pipeline,           \* which program runs: "fmu" | "repo" | "scrape" | "download"
    is_testing,         \* the is_testing constructor argument
    source,             \* the keys of the work items, in iteration order
    world,              \* which file content / repository metadata is out there
    github_token,       \* the environment variable GITHUB_TOKEN is set, for this process
    pc,                 \* position of the process
    idx,                \* number of work items taken from the iterator
    cur,                \* key of the item being processed
    df,                 \* ResultStore.df (the scraper's ResultStore.results):
                        \* the rows, in table order
    disk,               \* the store file
    succeeded_count,    \* ResultStore.succeeded_count (the scraper's new_results)
    failed_count,       \* ResultStore.exception_count / failed_count
    preexisting_count,  \* ResultStore.preexisting_count (the scraper's
                        \* preexisting_results)
    new_result_count,   \* the local variable of analyze()
    already_checked,    \* the local set of AnalyzeRepositories.analyze()
    page_count,         \* ScrapeGitHubFilesByExtension.page_count
    sort_order,         \* scrape(): the loop variable sort_order
    current_page,       \* scrape(): the loop variable current_page
    retry_count,        \* scrape(): retry_count
    written,            \* save(): number of lines handed to the file so far
    ret,                \* save(): where the caller goes on
    downloads,          \* the files of the downloads directory
    response,           \* history: the metadata request that has just been made, its
                        \* answer and the clock when _analyze_repository ended
    requested,          \* history: items a download request was made for, this session
    loaded,             \* history: keys of the table when this session started
    invoked,            \* history: keys the processor was invoked for, this session
    saved               \* history: keys of the file when it was last read or written whole

vars == << pipeline, is_testing, source, world, github_token, pc, idx, cur, df,
           disk, succeeded_count, failed_count, preexisting_count,
           new_result_count, already_checked, page_count, sort_order,
           current_page, retry_count, written, ret, downloads, response,
           requested, loaded, invoked, saved >>

config == << pipeline, is_testing, source, world >>

scraper == << page_count, sort_order, current_page, retry_count >>

----------------------------------------------------------------------------
(* Bounds of the model *)

MaxItems == 20          \* different keys of the source sequence
MaxPages == 10          \* pages of search results the site reports
MaxLinks == 10          \* different links the search results show
MaxLineLen == 82        \* characters of the first line of a problem message
TruncItems == 2         \* files of the source when the messages vary
MaxChunks == 2          \* chunks of the content of a downloaded file
MaxReset == 3           \* seconds of the clock a quota can be reset at

(* Program constants *)

MaxMessageLen == 80     \* AnalyzeFmuFiles._analyze_fmu_file: len(message) > 80
MaxTestingFiles == 5    \* max_testing_files of both analyze()
TestSaveInterval == 2   \* save_after_number_of_results when testing
FullSaveInterval == 10  \* save_after_number_of_results otherwise
MaxTestingDownloads == 2 \* max_testing_files of download()
MinSleepTime == 1       \* min_sleep_time, in tenths of a second
MaxSortOrder == 4       \* max_sort_order of scrape()
TestPageLimit == 3      \* the pages scraped when testing
ExpectedResults == 10   \* expected_number_of_results of _scrape_page_results
TestRetryCount == 1     \* max_retry_count when testing
FullRetryCount == 15    \* max_retry_count otherwise

----------------------------------------------------------------------------
(* Strings are sequences of one-character strings *)

NL == "\n"

Min(S) == CHOOSE x \in S : \A y \in S : x <= y

StartsWith(s, p) == Len(s) >= Len(p) /\ SubSeq(s, 1, Len(p)) = p

\* message.split('\n')[0]
FirstLine(s) ==
    LET nl == { i \in 1..Len(s) : s[i] = NL }
    IN  IF nl = {} THEN s ELSE SubSeq(s, 1, Min(nl) - 1)

\* message[:80] + '...' when len(message) > 80
Ellipsis == << ".", ".", "." >>

LimitMessageFrom80(message) ==
    LET line == FirstLine(message)
    IN  IF Len(line) >= MaxMessageLen
        THEN SubSeq(line, 1, MaxMessageLen) \o Ellipsis
        ELSE line

LimitMessage(message) ==
    LET line == FirstLine(message)
    IN  IF Len(line) > MaxMessageLen
        THEN SubSeq(line, 1, MaxMessageLen) \o Ellipsis
        ELSE line

----------------------------------------------------------------------------
(* Field values of a table: pandas' nullable string, boolean and Int64 *)

NA == [t |-> "na"]
Str(s) == [t |-> "str", s |-> s]
Bool(b) == [t |-> "bool", b |-> b]
Int64(n) == [t |-> "int", n |-> n]

IsTrue(v) == v.t = "bool" /\ v.b

(* The text of a field value in the store file (DataFrame.to_csv): a missing
   value and the empty string both give an empty field *)

DigitChars == << "0", "1", "2", "3", "4", "5", "6", "7", "8", "9" >>

RECURSIVE Digits(_)
Digits(n) == IF n < 10 THEN << DigitChars[n + 1] >>
             ELSE Digits(n \div 10) \o << DigitChars[(n % 10) + 1] >>

TrueText == << "T", "r", "u", "e" >>
FalseText == << "F", "a", "l", "s", "e" >>

ToCsvField(v) ==
    CASE v.t = "na" -> << >>
      [] v.t = "str" -> v.s
      [] v.t = "bool" -> IF v.b THEN TrueText ELSE FalseText
      [] v.t = "int" -> Digits(v.n)

(* The value read back from a field's text (pandas.read_csv with the dtype of
   the column): the empty field is read as a missing value *)

DigitValue(c) == CHOOSE d \in 0..9 : DigitChars[d + 1] = c

RECURSIVE ParseInt(_)
ParseInt(text) ==
    IF Len(text) = 1 THEN DigitValue(text[1])
    ELSE 10 * ParseInt(SubSeq(text, 1, Len(text) - 1)) + DigitValue(text[Len(text)])

FromCsvField(dtype, text) ==
    IF text = << >> THEN NA
    ELSE CASE dtype = "str" -> Str(text)
           [] dtype = "bool" -> Bool(text = TrueText)
           [] dtype = "int" -> Int64(ParseInt(text))

----------------------------------------------------------------------------
(* The columns of the two tables, after the index column `key` *)

FmuColumns == << "exc", "count", "msg", "fmi", "cosim", "mx",
                 "param", "input", "output", "tool" >>

FmuDtype == [ exc |-> "bool", count |-> "int", msg |-> "str", fmi |-> "str",
              cosim |-> "bool", mx |-> "bool", param |-> "int", input |-> "int",
              output |-> "int", tool |-> "str" ]

RepoColumns == << "license" >>

RepoDtype == [ license |-> "str" ]

ScrapeColumns == << >>

Columns ==
    CASE pipeline = "fmu" -> FmuColumns
      [] pipeline = "repo" -> RepoColumns
      [] pipeline = "scrape" -> ScrapeColumns

Dtype == IF pipeline = "fmu" THEN FmuDtype ELSE RepoDtype

ColumnSet == { Columns[i] : i \in 1..Len(Columns) }

\* one line of the file for one row of the table
ToCsvRow(row) ==
    [ c \in ColumnSet \cup {"key"} |->
        IF c = "key" THEN row.key ELSE ToCsvField(row[c]) ]

\* one row of the table for one line of the file
FromCsvRow(line) ==
    [ c \in ColumnSet \cup {"key"} |->
        IF c = "key" THEN line.key ELSE FromCsvField(Dtype[c], line[c]) ]

Keys(rows) == { rows[i].key : i \in 1..Len(rows) }

----------------------------------------------------------------------------
(* The store file: absent, or a header line and the lines written so far *)

NoFile == [exists |-> FALSE, header |-> FALSE, rows |-> << >>]

DiskKeys == Keys(disk.rows)

\* DataFrame.sort_index: the rows in ascending key order
RECURSIVE InsertRow(_, _)
InsertRow(sorted, row) ==
    IF sorted = << >> THEN << row >>
    ELSE IF row.key < Head(sorted).key THEN << row >> \o sorted
    ELSE << Head(sorted) >> \o InsertRow(Tail(sorted), row)

SortIndexNone(rows) == rows

RECURSIVE SortIndex(_)
SortIndex(rows) ==
    IF rows = << >> THEN << >>
    ELSE InsertRow(SortIndex(SubSeq(rows, 1, Len(rows) - 1)), rows[Len(rows)])

----------------------------------------------------------------------------
(* What the external collaborators answer.  The answer for a file or a
   repository is a function of its key and of `world`. *)

AlphabetChars == << "a", "b", "c", "d", "e" >>

\* a line of n characters, none of them a newline
Line(n) == [i \in 1..n |-> AlphabetChars[(i % 5) + 1]]

\* what follows the first line of a message
Rest(tail) ==
    CASE tail = 0 -> << >>
      [] tail = 1 -> << NL >>
      [] tail = 2 -> << NL, "x" >>
      [] tail = 3 -> << NL, NL, "y" >>

\* problems[0] of validate_fmu
FirstProblem == Line(world.len) \o Rest(world.tail)

ExceptionPrefix == << "E", "x", "c", "e", "p", "t", "i", "o", "n", ":", " " >>

\* str(e) of an exception of fmpy
ExceptionText == << "b", "a", "d", NL, "z", "i", "p" >>

FmuShape(k) == (k + world.shift) % 4

\* validate_fmu(path) raises
ValidateRaises(k) == FmuShape(k) = 3

\* validate_fmu(path): the list of problems
Problems(k) ==
    CASE FmuShape(k) = 1 -> << FirstProblem >>
      [] FmuShape(k) = 2 -> << FirstProblem, Line(2) >>
      [] OTHER -> << >>

\* read_model_description(path) or supported_platforms(path) raises
DescriptionRaises(k) == FmuShape(k) = 2 /\ k % 2 = 0

\* read_model_description(path)
ModelDescription(k) ==
    [ fmiVersion |-> IF k % 2 = 0 THEN << "2", ".", "0" >> ELSE << "1", ".", "0" >>,
      coSimulation |-> k % 2 = 0,
      modelExchange |-> k % 3 # 0,
      parameter |-> k,
      input |-> k % 3,
      output |-> 0,
      generationTool |-> IF k % 3 = 1 THEN NA ELSE Str(<< "t" >>) ]

----------------------------------------------------------------------------
(* AnalyzeFmuFiles._analyze_fmu_file: the row it hands to add_result *)

\* the except branch: add_result(path, True, 0, f'Exception: {e}', None, ...)
ExceptionRow(k) ==
    [ key |-> k, exc |-> Bool(TRUE), count |-> Int64(0),
      msg |-> Str(ExceptionPrefix \o ExceptionText),
      fmi |-> NA, cosim |-> NA, mx |-> NA, param |-> NA, input |-> NA,
      output |-> NA, tool |-> NA ]

\* the try branch
DescribedRow(k) ==
    LET problems == Problems(k)
        message == IF problems # << >> THEN LimitMessage(problems[1]) ELSE << >>
        md == ModelDescription(k)
    IN  [ key |-> k, exc |-> Bool(FALSE), count |-> Int64(Len(problems)),
          msg |-> Str(message),
          fmi |-> Str(md.fmiVersion), cosim |-> Bool(md.coSimulation),
          mx |-> Bool(md.modelExchange), param |-> Int64(md.parameter),
          input |-> Int64(md.input), output |-> Int64(md.output),
          tool |-> md.generationTool ]

AnalyzedRow(k) ==
    IF ValidateRaises(k) \/ DescriptionRaises(k) THEN ExceptionRow(k)
    ELSE DescribedRow(k)

----------------------------------------------------------------------------
(* ResultStore *)

ConcatOverwrite(table, row) ==
    IF table = << >> THEN << row >> ELSE [table EXCEPT ![Len(table)] = row]

ConcatNothing(table, row) == table

\* add_result: `self.df = pd.concat([self.df, new_row])`
Concat(table, row) == Append(table, row)

\* AnalyzeFmuFiles.ResultStore.add_result: `if validity_has_exception`
FmuRowFailed(row) == IsTrue(row.exc)

IsPreexistingNever(k) == FALSE

\* check_for_preexisting_result: `key in self.df.index`
IsPreexisting(k) == k \in Keys(df)

AfterLoopReturn == "done"

\* where a run goes when it leaves its loop: `self.result_store.save()`
AfterLoop == "save"

SaveInterval == IF is_testing THEN TestSaveInterval ELSE FullSaveInterval

\* no metadata request has just been made
NoResponse == [status_code |-> 0, exhausted |-> FALSE, reset_time |-> 0, clock |-> 0]

\* os.environ.get('GITHUB_TOKEN') is a token or None, for each process anew;
\* only the license fetcher and the downloader ask for it
Tokens(p) == IF p \in { "repo", "download" } THEN BOOLEAN ELSE { TRUE }

TokenMissingNever == FALSE

\* `if self.github_token is None`
TokenMissing == ~github_token

\* the constructor: the table of the file, or an empty table
LoadedRows == [i \in 1..Len(disk.rows) |-> FromCsvRow(disk.rows[i])]

ResetMemory ==
    /\ idx' = 0
    /\ cur' = 0
    /\ df' = << >>
    /\ succeeded_count' = 0
    /\ failed_count' = 0
    /\ preexisting_count' = 0
    /\ new_result_count' = 0
    /\ already_checked' = {}
    /\ page_count' = 0
    /\ sort_order' = 0
    /\ current_page' = 0
    /\ retry_count' = 0
    /\ written' = 0
    /\ ret' = "none"
    /\ response' = NoResponse
    /\ requested' = {}
    /\ loaded' = {}
    /\ invoked' = {}

\* the store file has a header line (to_csv) or none (the scraper's lines)
HasHeader == pipeline # "scrape"

\* ResultStore.__init__ and the constructor of AnalyzeFmuFiles / AnalyzeRepositories
Start ==
    /\ pipeline \in { "fmu", "repo" }
    /\ pc = "start"
    /\ IF \/ disk.exists /\ ~disk.header
          \/ pipeline = "repo" /\ TokenMissing
       THEN \* pandas.read_csv of a file of 0 bytes raises EmptyDataError;
            \* AnalyzeRepositories.__init__ raises when there is no token
            /\ pc' = "fatal"
            /\ UNCHANGED << df, loaded, saved >>
       ELSE /\ pc' = "loop"
            /\ df' = LoadedRows
            /\ loaded' = Keys(LoadedRows)
            /\ saved' = Keys(LoadedRows)
    /\ UNCHANGED << config, scraper, github_token, downloads, response, requested,
                    idx, cur, disk,
                    succeeded_count, failed_count, preexisting_count,
                    new_result_count, already_checked, written, ret, invoked >>

AppendedFile == [disk EXCEPT !.exists = TRUE]

\* the store file when it has been opened for writing: to_csv and
\* open(self.filename, 'w') empty it
TruncatedFile == [exists |-> TRUE, header |-> FALSE, rows |-> << >>]

\* ResultStore.save, first half: sort_index, then the file is opened for writing
SaveOpen ==
    /\ pc = "save"
    /\ df' = IF HasHeader THEN SortIndex(df) ELSE df
    /\ disk' = TruncatedFile
    /\ written' = 0
    /\ pc' = "writing"
    /\ UNCHANGED << config, scraper, github_token, downloads, response, requested,
                    idx, cur,
                    succeeded_count, failed_count, preexisting_count,
                    new_result_count, already_checked, ret, loaded, invoked,
                    saved >>

\* ResultStore.save: the header line, then one line per row reaches the file
SaveWrite ==
    /\ pc = "writing"
    /\ \/ /\ HasHeader
          /\ ~disk.header
          /\ disk' = [disk EXCEPT !.header = TRUE]
          /\ UNCHANGED written
       \/ /\ disk.header \/ ~HasHeader
          /\ written < Len(df)
          /\ disk' = [disk EXCEPT !.rows = Append(@, ToCsvRow(df[written + 1]))]
          /\ written' = written + 1
    /\ UNCHANGED << config, scraper, github_token, downloads, response, requested,
                    pc, idx, cur, df,
                    succeeded_count, failed_count, preexisting_count,
                    new_result_count, already_checked, ret, loaded, invoked,
                    saved >>

\* ResultStore.save returns: the file is closed
SaveClose ==
    /\ pc = "writing"
    /\ disk.header \/ ~HasHeader
    /\ written = Len(df)
    /\ pc' = ret
    /\ saved' = DiskKeys
    /\ UNCHANGED << config, scraper, github_token, downloads, response, requested,
                    idx, cur, df, disk,
                    succeeded_count, failed_count, preexisting_count,
                    new_result_count, already_checked, written, ret, loaded,
                    invoked >>

----------------------------------------------------------------------------
(* AnalyzeFmuFiles.analyze *)

\* `for file in self._file_iterator()` and the check for a preexisting result
FmuNext ==
    /\ pipeline = "fmu"
    /\ pc = "loop"
    /\ IF idx = Len(source)
       THEN /\ pc' = AfterLoop
            /\ ret' = "done"
            /\ UNCHANGED << idx, cur, preexisting_count >>
       ELSE /\ idx' = idx + 1
            /\ UNCHANGED ret
            /\ IF IsPreexisting(source[idx + 1])
               THEN /\ preexisting_count' = preexisting_count + 1
                    /\ UNCHANGED << pc, cur >>
               ELSE /\ cur' = source[idx + 1]
                    /\ pc' = "analyze"
                    /\ UNCHANGED preexisting_count
    /\ UNCHANGED << config, scraper, github_token, downloads, response, requested,
                    df, disk,
                    succeeded_count, failed_count, new_result_count,
                    already_checked, written, loaded, invoked, saved >>

\* self._analyze_fmu_file(file), with the add_result it ends in
FmuAnalyze ==
    /\ pipeline = "fmu"
    /\ pc = "analyze"
    /\ LET row == AnalyzedRow(cur)
       IN  /\ df' = Concat(df, row)
           /\ IF FmuRowFailed(row)
              THEN failed_count' = failed_count + 1 /\ UNCHANGED succeeded_count
              ELSE succeeded_count' = succeeded_count + 1 /\ UNCHANGED failed_count
    /\ invoked' = invoked \cup {cur}
    /\ pc' = "counted"
    /\ UNCHANGED << config, scraper, github_token, downloads, response, requested,
                    idx, cur, disk,
                    preexisting_count, new_result_count, already_checked,
                    written, ret, loaded, saved >>

\* new_result_count, the testing limit and the periodic save
FmuCount ==
    /\ pipeline = "fmu"
    /\ pc = "counted"
    /\ new_result_count' = succeeded_count + failed_count
    /\ IF is_testing /\ new_result_count' >= MaxTestingFiles
       THEN pc' = AfterLoop /\ ret' = "done"
       ELSE IF new_result_count' % SaveInterval = 0
            THEN pc' = "save" /\ ret' = "loop"
            ELSE pc' = "loop" /\ UNCHANGED ret
    /\ UNCHANGED << config, scraper, github_token, downloads, response, requested,
                    idx, cur, df, disk,
                    succeeded_count, failed_count, preexisting_count,
                    already_checked, written, loaded, invoked, saved >>

----------------------------------------------------------------------------
(* AnalyzeRepositories *)

ErrorPrefix == << "E", "r", "r", "o", "r", ":" >>

RepoShape(k) == (k + world.shift) % 4

\* response.status_code of GET https://api.github.com/repos/{repository}
StatusCode(k) == IF RepoShape(k) = 2 THEN 404 ELSE 200

\* response.text of a response that is not a 200
ResponseText(k) == << "N", "o", "t", " ", "F", "o", "u", "n", "d" >>

\* response.json()['license']: None, or its 'key'
LicenseJson(k) ==
    CASE RepoShape(k) = 0 -> Str(<< "m", "i", "t" >>)
      [] RepoShape(k) = 1 -> NA
      [] OTHER -> Str(<< "g", "p", "l" >>)

\* _analyze_repository: the license it hands to add_result
LicenseOf(k) ==
    IF StatusCode(k) = 200
    THEN IF LicenseJson(k) # NA THEN LicenseJson(k).s ELSE << "n", "o", "n", "e" >>
    ELSE ErrorPrefix \o << " " >> \o ResponseText(k)

RepoRowFailedNever(row) == FALSE

\* AnalyzeRepositories.ResultStore.add_result: `if license.startswith('Error:')`
RepoRowFailed(row) == StartsWith(row.license.s, ErrorPrefix)

\* what can happen to the request: it is answered, requests.get raises, or the
\* answer lacks the X-Ratelimit-Remaining header
Network == { "answered", "raises", "no_header" }

\* `for index, row in self.result_store.file_results.df.iterrows()`, the
\* already_checked set and the check for a preexisting result
RepoNext ==
    /\ pipeline = "repo"
    /\ pc = "loop"
    /\ IF idx = Len(source)
       THEN /\ pc' = AfterLoop
            /\ ret' = "done"
            /\ UNCHANGED << idx, cur, preexisting_count, already_checked,
                            new_result_count >>
       ELSE /\ idx' = idx + 1
            /\ UNCHANGED ret
            /\ IF source[idx + 1] \in already_checked
               THEN UNCHANGED << pc, cur, preexisting_count, already_checked,
                                 new_result_count >>
               ELSE /\ already_checked' = already_checked \cup { source[idx + 1] }
                    /\ IF IsPreexisting(source[idx + 1])
                       THEN /\ preexisting_count' = preexisting_count + 1
                            /\ UNCHANGED << pc, cur, new_result_count >>
                       ELSE /\ new_result_count' = succeeded_count + failed_count
                            /\ cur' = source[idx + 1]
                            /\ pc' = "analyze"
                            /\ UNCHANGED preexisting_count
    /\ UNCHANGED << config, scraper, github_token, downloads, response, requested,
                    df, disk,
                    succeeded_count, failed_count, written, loaded, invoked,
                    saved >>

\* int(response.headers['X-Ratelimit-Remaining'])
Remainings == { 0, 1 }

\* int(response.headers['X-Ratelimit-Reset']), in seconds
ResetTimes == 0..MaxReset

\* time.time() when the headers are looked at, in tenths of a second
Clocks == { 20, 25 }

\* int(time.time()), in seconds
IntTime(clock) == clock \div 10

\* sleep_time, in tenths of a second
SleepTime(ratelimit_remaining, reset_time, clock) ==
    MinSleepTime
        + (IF ratelimit_remaining = 0 THEN 10 * (reset_time - IntTime(clock)) ELSE 0)

\* self._analyze_repository(repository), with the add_result it makes and the
\* sleep it ends in; time.sleep raises ValueError for a negative sleep_time
RepoAnalyze ==
    /\ pipeline = "repo"
    /\ pc = "analyze"
    /\ invoked' = invoked \cup {cur}
    /\ \E net \in Network, ratelimit_remaining \in Remainings,
          reset_time \in ResetTimes, clock \in Clocks :
         IF net = "raises"
         THEN /\ pc' = "aborted"
              /\ response' = NoResponse
              /\ UNCHANGED << df, succeeded_count, failed_count >>
         ELSE LET row == [ key |-> cur, license |-> Str(LicenseOf(cur)) ]
                  sleep_time == SleepTime(ratelimit_remaining, reset_time, clock)
              IN  /\ df' = Concat(df, row)
                  /\ IF RepoRowFailed(row)
                     THEN failed_count' = failed_count + 1 /\ UNCHANGED succeeded_count
                     ELSE succeeded_count' = succeeded_count + 1 /\ UNCHANGED failed_count
                  /\ IF net = "no_header"
                     THEN /\ pc' = "aborted"
                          /\ response' = [NoResponse EXCEPT !.status_code = StatusCode(cur)]
                     ELSE /\ pc' = IF sleep_time < 0 THEN "aborted" ELSE "counted"
                          /\ response' =
                                [ status_code |-> StatusCode(cur),
                                  exhausted |-> ratelimit_remaining = 0,
                                  reset_time |-> IF ratelimit_remaining = 0
                                                 THEN reset_time ELSE 0,
                                  clock |-> IF sleep_time < 0 THEN clock
                                            ELSE clock + sleep_time ]
    /\ UNCHANGED << config, scraper, github_token, downloads, requested,
                    idx, cur, disk,
                    preexisting_count, new_result_count, already_checked,
                    written, ret, loaded, saved >>

\* the testing limit and the periodic save, on the count taken before the call
RepoCount ==
    /\ pipeline = "repo"
    /\ pc = "counted"
    /\ response' = NoResponse
    /\ IF is_testing /\ new_result_count >= MaxTestingFiles
       THEN pc' = AfterLoop /\ ret' = "done"
       ELSE IF new_result_count % SaveInterval = 0
            THEN pc' = "save" /\ ret' = "loop"
            ELSE pc' = "loop" /\ UNCHANGED ret
    /\ UNCHANGED << config, scraper, github_token, downloads, requested,
                    idx, cur, df, disk,
                    succeeded_count, failed_count, preexisting_count,
                    new_result_count, already_checked, written, loaded,
                    invoked, saved >>

----------------------------------------------------------------------------
(* ScrapeGitHubFilesByExtension *)

\* ResultStore.add_result of the scraper, for the links of one page in turn:
\* a link of the sorted set is counted and left out
RECURSIVE AddLinks(_, _)
AddLinks(store, links) ==
    IF links = << >> THEN store
    ELSE AddLinks(
            IF Head(links) \in Keys(store.results)
            THEN [store EXCEPT !.preexisting_results = @ + 1]
            ELSE [store EXCEPT !.results = InsertRow(@, [key |-> Head(links)]),
                               !.new_results = @ + 1],
            Tail(links))

\* the href of the i-th item of a page of search results
LinkOf(page, i) == ((page + i - 2) % MaxLinks) + 1

\* the search page fails to load its results: never, now and then, for the
\* first pages of every sort order, or always
PageFails(order, page) ==
    CASE world.shift = 0 -> FALSE
      [] world.shift = 1 -> (page + order) % 3 = 0
      [] world.shift = 2 -> page <= 2
      [] world.shift = 3 -> TRUE

\* the number of items a loaded page shows: all of them, or a few or none
ItemCount(order, page) ==
    IF PageFails(order, page) THEN (IF order % 2 = 0 THEN 4 ELSE 0)
    ELSE ExpectedResults

MaxRetryCount == IF is_testing THEN TestRetryCount ELSE FullRetryCount

\* ResultStore.__init__ of the scraper and ScrapeGitHubFilesByExtension.__init__,
\* and the first values of the loop variables of scrape()
ScrapeStart ==
    /\ pipeline = "scrape"
    /\ pc = "start"
    /\ df' = AddLinks([results |-> << >>, new_results |-> 0, preexisting_results |-> 0],
                      [i \in 1..Len(disk.rows) |-> disk.rows[i].key]).results
    /\ loaded' = DiskKeys
    /\ saved' = DiskKeys
    /\ page_count' = IF is_testing /\ MaxPages > TestPageLimit
                     THEN TestPageLimit ELSE MaxPages
    /\ sort_order' = 1
    /\ current_page' = 1
    /\ retry_count' = 0
    /\ pc' = "page"
    /\ UNCHANGED << config, github_token, downloads, response, requested,
                    idx, cur, disk, succeeded_count, failed_count,
                    preexisting_count, new_result_count, already_checked,
                    written, ret, invoked >>

\* one pass of the two loops of scrape(): the page is loaded and scraped, then
\* the page is counted as done or as to be retried
ScrapePage ==
    /\ pipeline = "scrape"
    /\ pc = "page"
    /\ IF sort_order > MaxSortOrder
       THEN /\ pc' = AfterLoop
            /\ ret' = "done"
            /\ UNCHANGED << df, succeeded_count, preexisting_count, scraper, idx >>
       ELSE   LET n == ItemCount(sort_order, current_page)
                  store == AddLinks([results |-> df,
                                     new_results |-> succeeded_count,
                                     preexisting_results |-> preexisting_count],
                                    [i \in 1..n |-> LinkOf(current_page, i)])
                  succeeded == ~(n < ExpectedResults)
              IN  /\ df' = store.results
                  /\ succeeded_count' = store.new_results
                  /\ preexisting_count' = store.preexisting_results
                  /\ UNCHANGED idx
                  /\ IF succeeded \/ retry_count >= MaxRetryCount
                     THEN /\ retry_count' = 0
                          /\ IF current_page % SaveInterval = 0
                             THEN pc' = "save" /\ ret' = "page"
                             ELSE UNCHANGED << pc, ret >>
                     ELSE /\ retry_count' = retry_count + 1
                          /\ UNCHANGED << pc, ret >>
                  \* the for statements take the next page whatever happened
                  /\ IF current_page < page_count
                     THEN current_page' = current_page + 1 /\ UNCHANGED sort_order
                     ELSE current_page' = 1 /\ sort_order' = sort_order + 1
                  /\ UNCHANGED page_count
    /\ UNCHANGED << config, github_token, downloads, response, requested,
                    cur, disk, failed_count, new_result_count,
                    already_checked, written, loaded, invoked, saved >>

----------------------------------------------------------------------------
(* DownloadGitHubFiles *)

\* str.split(sep): the parts between the separators, at least one
RECURSIVE Split(_, _)
Split(s, sep) ==
    LET at == { i \in 1..Len(s) : s[i] = sep }
    IN  IF at = {} THEN << s >>
        ELSE << SubSeq(s, 1, Min(at) - 1) >>
             \o Split(SubSeq(s, Min(at) + 1, Len(s)), sep)

\* sep.join(parts)
RECURSIVE JoinWith(_, _)
JoinWith(parts, sep) ==
    IF parts = << >> THEN << >>
    ELSE IF Len(parts) = 1 THEN parts[1]
    ELSE parts[1] \o << sep >> \o JoinWith(Tail(parts), sep)

Blob == << "b", "l", "o", "b" >>

\* _parse_url raises: an index past the end of split, or the assert on 'blob'
ParseRaises(github_file_url) ==
    LET split == Split(github_file_url, "/")
    IN  Len(split) < 7 \/ split[6] # Blob

\* _parse_url
ParseUrl(github_file_url) ==
    LET split == Split(github_file_url, "/")
    IN  [ owner |-> split[4],
          repo |-> split[5],
          commit_hash |-> split[7],
          filepath |-> JoinWith(SubSeq(split, 8, Len(split)), "/") ]

\* os.path.dirname(self.url_list_filepath), with '/downloads'
DownloadsDirectory == << "r", "/", "d", "o", "w", "n", "l", "o", "a", "d", "s" >>

\* _get_local_filepath
GetLocalFilepath(parsed_url) ==
    LET filepath_with_underscores == JoinWith(Split(parsed_url.filepath, "/"), "_")
    IN  JoinWith(<< DownloadsDirectory, parsed_url.owner, parsed_url.repo,
                    filepath_with_underscores >>, "/")

RawHost == << "h", "t", "t", "p", "s", ":", "/", "/", "r", "a", "w" >>

\* _get_download_url
GetDownloadUrl(parsed_url) ==
    JoinWith(<< RawHost, parsed_url.owner, parsed_url.repo,
                parsed_url.commit_hash, parsed_url.filepath >>, "/")

PathExistsNever(local_filepath) == FALSE

\* os.path.exists(local_filepath)
PathExists(local_filepath) == \E f \in downloads : f.path = local_filepath

\* open(local_filepath, 'wb'): the file is there and empty
OpenForWriting(local_filepath, download_url) ==
    { f \in downloads : f.path # local_filepath }
        \cup { [path |-> local_filepath, url |-> download_url, chunks |-> 0] }

\* file.write(chunk) on the file that is open
WriteChunk(local_filepath) ==
    { IF f.path = local_filepath THEN [f EXCEPT !.chunks = @ + 1] ELSE f :
        f \in downloads }

\* what can happen to the download request: a 200, another status, or
\* requests.get raises
Responses == { "ok", "not_found", "raises" }

\* DownloadGitHubFiles.__init__
DownloadStart ==
    /\ pipeline = "download"
    /\ pc = "start"
    /\ pc' = IF TokenMissing THEN "fatal" ELSE "loop"
    /\ UNCHANGED << config, scraper, github_token, downloads, response, requested,
                    idx, cur, df, disk, succeeded_count, failed_count,
                    preexisting_count, new_result_count, already_checked,
                    written, ret, loaded, invoked, saved >>

\* `for line in f`, and _process_file up to the test of the local path
DownloadNext ==
    /\ pipeline = "download"
    /\ pc = "loop"
    /\ IF idx = Len(source)
       THEN /\ pc' = "done"
            /\ UNCHANGED << idx, cur, preexisting_count, invoked >>
       ELSE /\ idx' = idx + 1
            /\ cur' = idx + 1
            /\ invoked' = invoked \cup { idx + 1 }
            /\ IF ParseRaises(source[idx + 1])
               THEN pc' = "aborted" /\ UNCHANGED preexisting_count
               ELSE IF PathExists(GetLocalFilepath(ParseUrl(source[idx + 1])))
                    THEN \* SKIPPED is counted, and `continue`
                         /\ preexisting_count' = preexisting_count + 1
                         /\ UNCHANGED pc
                    ELSE pc' = "request" /\ UNCHANGED preexisting_count
    /\ UNCHANGED << config, scraper, github_token, downloads, response, requested,
                    df, disk, succeeded_count, failed_count, new_result_count,
                    already_checked, written, ret, loaded, saved >>

\* _download: requests.get, and the local file is opened or the error is noted
DownloadRequest ==
    /\ pipeline = "download"
    /\ pc = "request"
    /\ requested' = requested \cup { cur }
    /\ \E answer \in Responses :
         LET parsed_url == ParseUrl(source[cur])
         IN  CASE answer = "raises" ->
                    /\ pc' = "aborted"
                    /\ UNCHANGED << downloads, failed_count >>
               [] answer = "not_found" ->
                    /\ pc' = "counted"
                    /\ failed_count' = failed_count + 1
                    /\ UNCHANGED downloads
               [] answer = "ok" ->
                    /\ pc' = "receiving"
                    /\ downloads' = OpenForWriting(GetLocalFilepath(parsed_url),
                                                   GetDownloadUrl(parsed_url))
                    /\ UNCHANGED failed_count
    /\ UNCHANGED << config, scraper, github_token, response, idx, cur, df, disk,
                    succeeded_count, preexisting_count, new_result_count,
                    already_checked, written, ret, loaded, invoked, saved >>

\* _download: `for chunk in response.iter_content(...)`, then the file is
\* closed and SUCCEEDED is counted
DownloadReceive ==
    /\ pipeline = "download"
    /\ pc = "receiving"
    /\ LET local_filepath == GetLocalFilepath(ParseUrl(source[cur]))
           file == CHOOSE f \in downloads : f.path = local_filepath
       IN  IF file.chunks < MaxChunks
           THEN /\ downloads' = WriteChunk(local_filepath)
                /\ UNCHANGED << pc, succeeded_count >>
           ELSE /\ succeeded_count' = succeeded_count + 1
                /\ pc' = "counted"
                /\ UNCHANGED downloads
    /\ UNCHANGED << config, scraper, github_token, response, requested, idx, cur,
                    df, disk, failed_count, preexisting_count, new_result_count,
                    already_checked, written, ret, loaded, invoked, saved >>

\* the testing limit of download(), on the files downloaded and failed
DownloadCount ==
    /\ pipeline = "download"
    /\ pc = "counted"
    /\ pc' = IF is_testing /\ succeeded_count + failed_count >= MaxTestingDownloads
             THEN "done" ELSE "loop"
    /\ UNCHANGED << config, scraper, github_token, downloads, response, requested,
                    idx, cur, df, disk, succeeded_count, failed_count,
                    preexisting_count, new_result_count, already_checked,
                    written, ret, loaded, invoked, saved >>

----------------------------------------------------------------------------
(* The process ends *)

Running == { "loop", "analyze", "counted", "page", "save", "writing",
             "request", "receiving" }

\* the process is killed; nothing but the file is left
Terminate ==
    /\ pc \in Running
    /\ pc' = "start"
    /\ ResetMemory
    /\ github_token' \in Tokens(pipeline)
    /\ UNCHANGED << config, disk, downloads, saved >>

\* the program has returned and is run again
Rerun ==
    /\ pc \in { "done", "aborted" }
    /\ pc' = "start"
    /\ ResetMemory
    /\ github_token' \in Tokens(pipeline)
    /\ UNCHANGED << config, disk, downloads, saved >>

----------------------------------------------------------------------------
(* The runs *)

Pipelines == { "fmu", "repo", "scrape", "download" }

\* the keys 1..n in ascending order
Ascending(n) == [i \in 1..n |-> i]

\* the keys 1..n, each pair of neighbours in descending order: 2, 1, 4, 3, ...
Swapped(n) ==
    [i \in 1..n |-> IF i % 2 = 0 THEN i - 1 ELSE IF i = n THEN i ELSE i + 1]

\* every key of an odd number twice in a row: several files of one repository
RECURSIVE Repeated(_)
Repeated(keys) ==
    IF keys = << >> THEN << >>
    ELSE (IF Head(keys) % 2 = 1 THEN << Head(keys), Head(keys) >> ELSE << Head(keys) >>)
         \o Repeated(Tail(keys))

\* the lines of the list of URLs: https://github.com/{owner}/{repo}/blob/...
GitHub == << "h", "t", "t", "p", "s", ":", "/", "/", "g", "h" >>

UrlOf(owner, repo, kind, commit_hash, filepath) ==
    JoinWith(<< GitHub, << owner >>, << repo >>, kind, << commit_hash >>, filepath >>, "/")

\* a file, the same file at another commit, a file whose name holds the '_'
\* that stands for '/' in the local path, and a file of another repository
UrlFile == UrlOf("o", "r", Blob, "1", << "a", "/", "b" >>)
UrlOtherCommit == UrlOf("o", "r", Blob, "2", << "a", "/", "b" >>)
UrlUnderscore == UrlOf("o", "r", Blob, "1", << "a", "_", "b" >>)
UrlOtherRepo == UrlOf("o", "q", Blob, "1", << "c" >>)

\* a line that is not the URL of a file: a directory, and a repository
UrlTree == UrlOf("o", "r", << "t", "r", "e", "e" >>, "1", << "a" >>)
UrlRepo == JoinWith(<< GitHub, << "o" >>, << "r" >> >>, "/")

UrlLists ==
    { << UrlFile, UrlOtherRepo, UrlFile >>,
      << UrlOtherRepo, UrlFile, UrlOtherCommit, UrlUnderscore >>,
      << UrlFile, UrlTree, UrlOtherRepo >>,
      << UrlOtherRepo, UrlRepo, UrlFile >> }

\* os.walk gives every file once; the rows of the file table give a
\* repository once for each of its files
Sources(p) ==
    CASE p = "fmu" -> { Swapped(MaxItems), Ascending(MaxItems) }
      [] p = "repo" -> { Repeated(Swapped(MaxItems)) }
      [] p = "scrape" -> { << >> }
      [] p = "download" -> UrlLists

Worlds == [ shift : 0..3, len : {3}, tail : {2} ]

\* the process has not started and there is no store file
InitMemory ==
    /\ pc = "start"
    /\ idx = 0
    /\ cur = 0
    /\ df = << >>
    /\ disk = NoFile
    /\ succeeded_count = 0
    /\ failed_count = 0
    /\ preexisting_count = 0
    /\ new_result_count = 0
    /\ already_checked = {}
    /\ page_count = 0
    /\ sort_order = 0
    /\ current_page = 0
    /\ retry_count = 0
    /\ written = 0
    /\ ret = "none"
    /\ downloads = {}
    /\ response = NoResponse
    /\ requested = {}
    /\ loaded = {}
    /\ invoked = {}
    /\ saved = {}

Init ==
    /\ pipeline \in Pipelines
    /\ is_testing \in BOOLEAN
    /\ source \in Sources(pipeline)
    /\ world \in Worlds
    /\ github_token \in Tokens(pipeline)
    /\ InitMemory

Next ==
    \/ Start
    \/ FmuNext
    \/ FmuAnalyze
    \/ FmuCount
    \/ RepoNext
    \/ RepoAnalyze
    \/ RepoCount
    \/ ScrapeStart
    \/ ScrapePage
    \/ DownloadStart
    \/ DownloadNext
    \/ DownloadRequest
    \/ DownloadReceive
    \/ DownloadCount
    \/ SaveOpen
    \/ SaveWrite
    \/ SaveClose
    \/ Terminate
    \/ Rerun

Spec == Init /\ [][Next]_vars

(* The file validator over a few files, for every shape of the first problem
   message: a first line of 0..MaxLineLen characters, alone or followed by
   more lines *)

MessageWorlds == [ shift : 0..1, len : 0..MaxLineLen, tail : 0..3 ]

InitMessages ==
    /\ pipeline = "fmu"
    /\ is_testing = TRUE
    /\ source = Swapped(TruncItems)
    /\ world \in MessageWorlds
    /\ github_token = TRUE
    /\ InitMemory

NextMessages ==
    \/ Start
    \/ FmuNext
    \/ FmuAnalyze
    \/ FmuCount
    \/ SaveOpen
    \/ SaveWrite
    \/ SaveClose
    \/ Rerun

SpecMessages == InitMessages /\ [][NextMessages]_vars

----------------------------------------------------------------------------
(* The table and the file, as the claims speak of them *)

\* the keys added to the table in this session
NewKeys == Keys(df) \ loaded

\* the number of records added in this session
NewResults == succeeded_count + failed_count

\* the lines of the file are the rows of the table
FileHoldsTable ==
    { disk.rows[i] : i \in 1..Len(disk.rows) } = { ToCsvRow(df[i]) : i \in 1..Len(df) }

\* the run is in its final save
InFinalSave == pc \in { "save", "writing" } /\ ret = "done"

----------------------------------------------------------------------------
\* C1: the table holds every key at most once, in every state of a run of any
\* of the three programs, for keys read from the file and keys added now
NoDuplicateKeys == Cardinality(Keys(df)) = Len(df)

\* C1 witness: a run of the license fetcher that found keys in the file, met a
\* repository a second time in its source and added new keys
NoDuplicateKeysWitness ==
    /\ pipeline = "repo"
    /\ pc = "done"
    /\ loaded # {}
    /\ preexisting_count > 0
    /\ NewKeys # {}
    /\ Cardinality(already_checked) < idx

\* C2: the processor is never invoked for a key that was in the store when the
\* run started
NeverReprocessed == invoked \cap loaded = {}

\* C2 witness: the full run of the file validator was killed after a save, and
\* the next run, started on that file, skipped its keys and processed others
NeverReprocessedWitness ==
    /\ pipeline = "fmu"
    /\ ~is_testing
    /\ loaded # {}
    /\ preexisting_count = Cardinality(loaded)
    /\ invoked # {}

\* C3: when the process has been terminated, the file holds every record that
\* a finished save() had written to it
SavedRecordsSurvive == pc = "start" => saved \subseteq DiskKeys

\* C4: wherever the process can be terminated, fewer records than the save
\* interval have been added in this session and are not in the file
BoundedRedo ==
    (pipeline \in { "fmu", "repo" } /\ pc \in Running)
        => Cardinality(NewKeys \ DiskKeys) <= SaveInterval - 1

\* C5: a testing run over a source of 20 or more new items ends with exactly
\* 5 new records
TestCapExact ==
    (pipeline \in { "fmu", "repo" } /\ is_testing /\ pc = "done" /\ loaded = {}
        /\ Cardinality({ source[i] : i \in 1..Len(source) }) >= 20)
        => NewResults = 5

\* C6: when testing, once 5 new items have been processed and until the final
\* save begins, the file holds at least 4 of the 5 new records
CheckpointFrequency ==
    (pipeline \in { "fmu", "repo" } /\ is_testing /\ pc \in Running
        /\ NewResults = 5 /\ ~InFinalSave)
        => Cardinality(NewKeys \cap DiskKeys) >= 4

\* C7: when a run has left its loop and returned, the records of the file are
\* the records of the table
FinalSave == pc = "done" => FileHoldsTable

\* C7 witness: a testing run of the file validator returned at its limit, with
\* items of the source left and rows in the table
FinalSaveWitness ==
    /\ pipeline = "fmu"
    /\ is_testing
    /\ pc = "done"
    /\ idx < Len(source)
    /\ NewResults = MaxTestingFiles
    /\ Len(disk.rows) = Len(df)

\* C8: no failure of the processing of one item ends the run
NoItemFailureEscapes == pc # "aborted"

\* C9: a file whose validation reported a problem has a failed-class record
\* with the first problem as its message
ProblemsGiveFailedRecord ==
    pipeline = "fmu" =>
        \A i \in 1..Len(df) :
            (~ValidateRaises(df[i].key) /\ Problems(df[i].key) # << >>)
                => /\ IsTrue(df[i].exc)
                   /\ ToCsvField(df[i].msg) = LimitMessage(Problems(df[i].key)[1])

\* m is the first line of p, cut to 80 characters and marked when it is longer
IsLimited(p, m) ==
    \E n \in 0..Len(p) :
        /\ \A i \in 1..n : p[i] # NL
        /\ n = Len(p) \/ p[n + 1] = NL
        /\ m = IF n > 80
               THEN [i \in 1..83 |-> IF i <= 80 THEN p[i] ELSE "."]
               ELSE [i \in 1..n |-> p[i]]

HasNewline(m) == \E i \in 1..Len(m) : m[i] = NL

----------------------------------------------------------------------------
\* the rows are in ascending order of their keys
KeyAscending(rows) ==
    \A i, j \in 1..Len(rows) : i < j => rows[i].key <= rows[j].key

\* C11: the rows of the store file are in ascending key order when a save()
\* has returned, and in every other state of the file, in whatever order the
\* records were added
KeyAscendingFile == KeyAscending(disk.rows)

\* C11 witness: the file validator took two new files in descending key order,
\* and its save() has written both to the file
KeyAscendingFileWitness ==
    /\ pipeline = "fmu"
    /\ pc = "loop"
    /\ idx = 2
    /\ source[1] > source[2]
    /\ { source[1], source[2] } \subseteq NewKeys
    /\ saved = { source[1], source[2] }
    /\ Len(disk.rows) = 2

\* C12: every row of the table, written to the file and read back from it, is
\* the row with the same key and the same field values
RoundTrip ==
    pipeline \in { "fmu", "repo" } =>
        \A i \in 1..Len(df) : FromCsvRow(ToCsvRow(df[i])) = df[i]

\* a step of analyze() that calls check_for_preexisting_result for the next
\* item of the source
CheckStep ==
    /\ pipeline \in { "fmu", "repo" }
    /\ pc = "loop"
    /\ idx' = idx + 1
    /\ pipeline = "repo" => source[idx + 1] \notin already_checked

\* C13: the duplicate check answers true (the item is skipped) exactly when
\* the key is in the table; a positive check adds 1 to the skipped counter and
\* a negative check leaves it; the table, the succeeded and failed counters
\* and the store file are unchanged in both cases
DuplicateCheckEffect ==
    [][ CheckStep =>
          LET key == source[idx + 1]
          IN  /\ (pc' = "loop") <=> (key \in Keys(df))
              /\ (pc' = "analyze") <=> (key \notin Keys(df))
              /\ preexisting_count' =
                    preexisting_count + (IF key \in Keys(df) THEN 1 ELSE 0)
              /\ UNCHANGED << df, succeeded_count, failed_count, disk >> ]_vars

\* C13 witness: a run of the license fetcher whose checks were positive for
\* the keys of the file and negative for a new key
DuplicateCheckEffectWitness ==
    /\ pipeline = "repo"
    /\ pc = "analyze"
    /\ loaded # {}
    /\ preexisting_count = Cardinality(loaded)
    /\ cur \notin Keys(df)
    /\ Cardinality(already_checked) < idx

\* the records of a table
Records(table) == { table[i] : i \in 1..Len(table) }

\* C14: no step of a run (duplicate check, add_result, save, the steps between
\* them) takes a record out of the table or changes a field value of a record
\* in it: every record of the table is a record of the table after the step
AppendOnly ==
    [][ (pc \in Running /\ pc' # "start") => Records(df) \subseteq Records(df') ]_vars

\* C14 witness: the file validator loaded records from the file, added records
\* to them and has saved the table, which sorted it
AppendOnlyWitness ==
    /\ pipeline = "fmu"
    /\ pc = "loop"
    /\ ret = "loop"
    /\ loaded # {}
    /\ NewKeys # {}
    /\ preexisting_count > 0
    /\ saved = Keys(df)

\* the class of a record: the test add_result makes on it
RowFailed(row) ==
    IF pipeline = "fmu" THEN FmuRowFailed(row) ELSE RepoRowFailed(row)

\* the records added in this session
NewRows == { i \in 1..Len(df) : df[i].key \notin loaded }

\* C15: in every state the succeeded and failed counters together count the
\* records of the table that were not loaded from the file, the failed counter
\* those of the failed class and the succeeded counter the others
SessionCounters ==
    pipeline \in { "fmu", "repo" } =>
        /\ succeeded_count + failed_count = Len(df) - Cardinality(loaded)
        /\ failed_count = Cardinality({ i \in NewRows : RowFailed(df[i]) })
        /\ succeeded_count = Cardinality({ i \in NewRows : ~RowFailed(df[i]) })

\* C15 witness: a table with records of the file and new records of both
\* classes
SessionCountersWitness ==
    /\ pipeline = "repo"
    /\ loaded # {}
    /\ succeeded_count >= 2
    /\ failed_count >= 1

\* the paths of the files of the downloads directory
DownloadPaths == { f.path : f \in downloads }

\* a step of download() that calls _process_file for the next line of the list
ProcessStep ==
    /\ pipeline = "download"
    /\ pc = "loop"
    /\ idx' = idx + 1
    /\ ~ParseRaises(source[idx + 1])

\* C16: when the local path of the URL is the path of a file that is there,
\* _process_file makes no request and the item is counted as skipped, not as
\* succeeded and not as failed; no file is changed
SkipsExistingFile ==
    [][ (ProcessStep /\ GetLocalFilepath(ParseUrl(source[idx + 1])) \in DownloadPaths)
          => /\ pc' = "loop"
             /\ requested' = requested
             /\ preexisting_count' = preexisting_count + 1
             /\ UNCHANGED << succeeded_count, failed_count, downloads >> ]_vars

\* C16 witness: a run found the files of an earlier run and skipped every
\* line of its list, without a request
SkipsExistingFileWitness ==
    /\ pipeline = "download"
    /\ pc = "done"
    /\ idx = 3
    /\ preexisting_count = 3
    /\ requested = {}
    /\ succeeded_count + failed_count = 0

\* a step of _analyze_repository in which the metadata request was answered
\* with a status outside 200..299
ErrorResponseStep ==
    /\ pipeline = "repo"
    /\ pc = "analyze"
    /\ response'.status_code # 0
    /\ response'.status_code \notin 200..299

\* C17: when the metadata request is answered with a status that is not a 2xx,
\* one record is added for the repository, its License begins with 'Error:',
\* the failed counter is incremented by 1 and the succeeded counter is unchanged
ErrorRecord ==
    [][ ErrorResponseStep =>
          /\ Len(df') = Len(df) + 1
          /\ SubSeq(df', 1, Len(df)) = df
          /\ df'[Len(df')].key = cur
          /\ \A i \in 1..6 :
                ToCsvField(df'[Len(df')].license)[i] = << "E", "r", "r", "o", "r", ":" >>[i]
          /\ failed_count' = failed_count + 1
          /\ succeeded_count' = succeeded_count ]_vars

\* C17 witness: the license fetcher got a 404 for a repository and went on
\* with a record for it in the table
ErrorRecordWitness ==
    /\ pipeline = "repo"
    /\ pc = "counted"
    /\ response.status_code = 404
    /\ failed_count = 1
    /\ df[Len(df)].key = cur
    /\ StartsWith(ToCsvField(df[Len(df)].license), ErrorPrefix)

\* C18: when the answer said that no quota is left, _analyze_repository does
\* not raise, and when it has returned the clock has reached the reset time
\* of the answer, whether that time was ahead or already past
RateLimitBackpressure ==
    (pipeline = "repo" /\ response.exhausted)
        => /\ pc # "aborted"
           /\ response.clock >= 10 * response.reset_time

\* the process is one of a program that asks for the token, and there is none
WithoutToken == pipeline \in { "repo", "download" } /\ ~github_token

\* C19: without the token the constructor raises: the process gets no further
\* than that, takes no work item, invokes no processor, makes no request, and
\* leaves the store file and the downloaded files as they are
MissingTokenFatal ==
    /\ [](WithoutToken =>
            /\ pc \in { "start", "fatal" }
            /\ idx = 0
            /\ invoked = {}
            /\ requested = {})
    /\ [][ WithoutToken => (pc' = "fatal" /\ UNCHANGED << disk, downloads >>) ]_vars

\* C19 witness: the license fetcher, started without the token on a store file
\* with records of an earlier run, has raised
MissingTokenFatalWitness ==
    /\ pipeline = "repo"
    /\ ~github_token
    /\ pc = "fatal"
    /\ Len(disk.rows) > 0

\* C20: when analyze() has returned after it consumed the whole source, every
\* item it consumed is counted as succeeded, failed or skipped
SkippedCounted ==
    (pipeline \in { "fmu", "repo" } /\ pc = "done" /\ idx = Len(source))
        => succeeded_count + failed_count + preexisting_count = Len(source)

\* a pass of the loops of scrape() in which the page showed fewer items than
\* expected and the retries are not used up
FailedPageStep ==
    /\ pipeline = "scrape"
    /\ pc = "page"
    /\ pc' # "start"
    /\ sort_order <= MaxSortOrder
    /\ ItemCount(sort_order, current_page) < ExpectedResults
    /\ retry_count < MaxRetryCount

\* C21: after a page that failed, with retries left, the next page loaded is
\* the same page of the same sort order, and it is counted as one more retry
PageRetry ==
    [][ FailedPageStep =>
          /\ current_page' = current_page
          /\ sort_order' = sort_order
          /\ retry_count' = retry_count + 1 ]_vars

\* the file holds the records of the table and nothing else: a header line
\* where the program writes one, and one line for every record, in ascending
\* key order; the set of records decides every line of such a file
FileOfRecords(file, table) ==
    /\ file.exists
    /\ file.header = (pipeline # "scrape")
    /\ Len(file.rows) = Cardinality(Records(table))
    /\ { file.rows[i] : i \in 1..Len(file.rows) }
          = { ToCsvRow(row) : row \in Records(table) }
    /\ \A i, j \in 1..Len(file.rows) : i < j => file.rows[i].key < file.rows[j].key

\* C22: no step of save() changes the set of records of the table or a session
\* counter, wherever in a run it is called, and when save() returns the file
\* is the file of the records of the table, whatever the file was before: a
\* save() that follows a save() with no add_result in between leaves the file
\* as the first left it
IdempotentSave ==
    [][ (pc \in { "save", "writing" } /\ pc' # "start") =>
          /\ Records(df') = Records(df)
          /\ UNCHANGED << succeeded_count, failed_count, preexisting_count >>
          /\ pc' # "writing" => FileOfRecords(disk', df) ]_vars

\* C22 witness: the file validator saved at its interval after the last item
\* of the source, saved again when the loop ended, and returned
IdempotentSaveWitness ==
    /\ pipeline = "fmu"
    /\ pc = "done"
    /\ idx = Len(source)
    /\ NewResults > 0
    /\ NewResults % SaveInterval = 0
    /\ ~(is_testing /\ NewResults >= MaxTestingFiles)
    /\ FileOfRecords(disk, df)

\* C23: a file of the downloads directory holds the whole content of its URL,
\* unless it is the file that the running process is writing right now
DownloadsComplete ==
    pipeline = "download" =>
        \A f \in downloads :
            \/ f.chunks = MaxChunks
            \/ /\ pc = "receiving"
               /\ f.path = GetLocalFilepath(ParseUrl(source[cur]))

\* C24: download() skips a line of the list only when a file of the downloads
\* directory was written from the download URL of that line, that is for the
\* same owner, repository, revision and path
NoSkipWithoutDownload ==
    [][ (ProcessStep /\ pc' = "loop" /\ preexisting_count' = preexisting_count + 1)
          => \E f \in downloads :
                f.url = GetDownloadUrl(ParseUrl(source[idx + 1])) ]_vars

====
